---- MODULE Spec2Model ----
(***************************************************************************)
(* Document lifecycle pipeline of the todoapp server: the tRPC procedures  *)
(* documents.upload / updateStatus / delete, the file-storage service and  *)
(* the structured-extraction service, as a state machine over the          *)
(* database table, the upload directory and the requests in flight.        *)
(* Every handler is split at its awaits: one action per database write,    *)
(* file-system write or external call, so that concurrent requests         *)
(* interleave exactly where the event loop lets them.                      *)
(***************************************************************************)
EXTENDS Integers, Sequences, FiniteSets, TLC

\* ------------------------------------------------------------------ bounds
MaxReqs == 2        \* request slots that may be in flight at once
MaxDocs == 2        \* documents ever created (autoincrement ids 1..MaxDocs)
MaxNameLen == 3     \* length of the enumerated file names
MaxTodos == 2       \* todos ever created (autoincrement ids 1..MaxTodos)

\* ------------------------------------------------- src/shared/documents.ts
MAX_FILE_SIZE == 10485760

\* Longest file name of a document (data model: 1-255 characters).
MaxFilenameLength == 255

PDF == "application/pdf"

ALLOWED_MIME_TYPES ==
    { "application/pdf", "image/jpeg", "image/png", "image/gif", "text/plain",
      "application/msword",
      "application/vnd.openxmlformats-officedocument.wordprocessingml.document" }

UPLOADING == "uploading"
UPLOADED == "uploaded"
PROCESSING == "processing"
REVIEW == "review"
COMPLETED == "completed"
ERROR == "error"

DOCUMENT_STATUS == { UPLOADING, UPLOADED, PROCESSING, REVIEW, COMPLETED, ERROR }

\* Optional values (storedPath?, extractedData?): <<>> is undefined.
None == << >>
Some(v) == << v >>
IsSet(o) == o # None

\* ------------------------------------------------------------ file storage
\* File names are sequences of one-character strings.
Lower == { "a", "b", "c", "d", "e", "f", "g", "h", "i", "j", "k", "l", "m",
           "n", "o", "p", "q", "r", "s", "t", "u", "v", "w", "x", "y", "z" }
Upper == { "A", "B", "C", "D", "E", "F", "G", "H", "I", "J", "K", "L", "M",
           "N", "O", "P", "Q", "R", "S", "T", "U", "V", "W", "X", "Y", "Z" }
Digit == { "0", "1", "2", "3", "4", "5", "6", "7", "8", "9" }

\* The character class [a-zA-Z0-9._-] of sanitizeFilename.
SafeChar(c) == c \in Lower \cup Upper \cup Digit \cup { ".", "_", "-" }

\* The greatest of a set of indices, 0 when there is none.
Last(indices) ==
    IF indices = { } THEN 0
    ELSE CHOOSE i \in indices : \A j \in indices : j <= i

StripTrailingSlashes(s) == SubSeq(s, 1, Last({ i \in DOMAIN s : s[i] # "/" }))

AfterLastSlash(s) ==
    SubSeq(s, Last({ i \in DOMAIN s : s[i] = "/" }) + 1, Len(s))

\* path.basename (POSIX): trailing separators are dropped, then the part after
\* the last separator is kept.
basename(p) == AfterLastSlash(StripTrailingSlashes(p))

sanitizeFilename(filename) ==
    LET b == basename(filename)
    IN  [i \in 1..Len(b) |-> IF SafeChar(b[i]) THEN b[i] ELSE "_"]

\* documentId.toString(): the decimal digits of a positive integer.
DigitChar == << "0", "1", "2", "3", "4", "5", "6", "7", "8", "9" >>

RECURSIVE toString(_)
toString(n) ==
    IF n < 10 THEN << DigitChar[n + 1] >>
    ELSE Append(toString(n \div 10), DigitChar[(n % 10) + 1])

\* A relative path is a sequence of segments.  path.normalize drops "" and "."
\* segments and lets ".." cancel the segment before it; a ".." with nothing
\* before it stays.
DotSeg == << "." >>
DotDotSeg == << ".", "." >>

RECURSIVE normalize(_)
normalize(segs) ==
    IF segs = << >> THEN << >>
    ELSE LET init == normalize(SubSeq(segs, 1, Len(segs) - 1))
             last == segs[Len(segs)]
         IN  IF last = << >> \/ last = DotSeg THEN init
             ELSE IF last = DotDotSeg
                  THEN IF init # << >> /\ init[Len(init)] # DotDotSeg
                       THEN SubSeq(init, 1, Len(init) - 1)
                       ELSE Append(init, last)
             ELSE Append(init, last)

\* path.join of relative segments.
join(segs) == normalize(segs)

getDocumentDir(documentId) == join(<< toString(documentId) >>)

\* fs.writeFile fails with EISDIR when the target is a directory: the upload
\* root itself (empty path) or the document directory mkdir has just created.
IsDirectory(path, documentId) == path = << >> \/ path = getDocumentDir(documentId)

\* saveFile: the path written under the upload root, the path returned, and
\* whether the write can succeed at all.
\* Variant: every file is written directly under the upload root.
saveFileTargetFlat(documentId, filename) ==
    join(<< sanitizeFilename(filename) >>)

saveFileTarget(documentId, filename) ==
    join(getDocumentDir(documentId) \o << sanitizeFilename(filename) >>)

saveFileResult(documentId, filename) ==
    join(<< toString(documentId), sanitizeFilename(filename) >>)

\* Variant: writeFile succeeds on a directory too.
saveFileWritableAlways(documentId, filename) == TRUE

saveFileWritable(documentId, filename) ==
    ~IsDirectory(saveFileTarget(documentId, filename), documentId)

\* getFilePath: rejects a normalized path that starts with ".." (a relative
\* path of segments is never absolute); otherwise the path under the root.
\* normalized.startsWith('..') is a test on the string: any first segment that
\* begins with two dots is refused.
getFilePathOk(storedPath) ==
    LET n == normalize(storedPath)
    IN  ~(n # << >> /\ Len(n[1]) >= 2 /\ n[1][1] = "." /\ n[1][2] = ".")

getFilePath(storedPath) == normalize(storedPath)

\* -------------------------------------------------- structured extraction
\* What the chat-completion endpoint answers: the HTTP status, whether the
\* first choice carries content, whether that content holds a '{' before a
\* later '}', whether the span between them parses, and the parsed object.
InvoiceFull ==
    [documentType |-> "invoice", vendor |-> "Acme", amount |-> 500,
     date |-> "2024-01-15", description |-> "Jan invoice"]
InvoiceNoAmount ==
    [documentType |-> "invoice", vendor |-> "Acme",
     date |-> "2024-01-15", description |-> "Jan invoice"]
InvoiceNoVendor ==
    [documentType |-> "invoice", date |-> "2024-01-15", description |-> "Jan invoice"]
InvoiceEmptyDescription ==
    [documentType |-> "invoice", vendor |-> "Acme",
     date |-> "2024-01-15", description |-> ""]

ApiResponse(ok, hasContent, hasBraces, parses, obj) ==
    [ok |-> ok, hasContent |-> hasContent, hasBraces |-> hasBraces,
     parses |-> parses, obj |-> obj]

ApiResponses ==
    { ApiResponse(FALSE, FALSE, FALSE, FALSE, InvoiceFull),
      ApiResponse(TRUE, FALSE, FALSE, FALSE, InvoiceFull),
      ApiResponse(TRUE, TRUE, FALSE, FALSE, InvoiceFull),
      ApiResponse(TRUE, TRUE, TRUE, FALSE, InvoiceFull),
      ApiResponse(TRUE, TRUE, TRUE, TRUE, InvoiceFull),
      ApiResponse(TRUE, TRUE, TRUE, TRUE, InvoiceNoAmount),
      ApiResponse(TRUE, TRUE, TRUE, TRUE, InvoiceNoVendor),
      ApiResponse(TRUE, TRUE, TRUE, TRUE, InvoiceEmptyDescription) }

\* !obj.field : the field is absent or the empty string.
Falsy(obj, field) == field \notin DOMAIN obj \/ obj[field] = ""

RequiredFields == { "documentType", "vendor", "date", "description" }

\* Variant: the vendor is left out of the required-field check.
MissingRequiredFieldsButVendor(obj) ==
    \E f \in RequiredFields \ { "vendor" } : Falsy(obj, f)

\* if (!documentType || !vendor || !date || !description) throw
MissingRequiredFields(obj) == \E f \in RequiredFields : Falsy(obj, f)

Thrown(msg) == [ok |-> FALSE, msg |-> msg, data |-> InvoiceFull]
Returned(data) == [ok |-> TRUE, msg |-> "", data |-> data]

\* extractDataFromText, given whether the API key is configured and what the
\* endpoint answers: the data returned or the error thrown.
extractDataFromText(keySet, resp) ==
    IF ~keySet THEN Thrown("OPENROUTER_API_KEY is not configured")
    ELSE IF ~resp.ok THEN Thrown("OpenRouter API request failed")
    ELSE IF ~resp.hasContent THEN Thrown("No content in OpenRouter response")
    ELSE IF ~resp.hasBraces THEN Thrown("No JSON object found in response")
    ELSE IF ~resp.parses THEN Thrown("JSON.parse SyntaxError")
    ELSE IF MissingRequiredFields(resp.obj)
         THEN Thrown("Missing required fields in extracted data")
    ELSE Returned(resp.obj)

\* --------------------------------------------------------------- validation
\* Variants: the size limit is exclusive; the type is not looked at; an
\* empty file is let through.
uploadInputOkBelowLimit(file) ==
    /\ file.size # 0
    /\ file.size < MAX_FILE_SIZE
    /\ file.type \in ALLOWED_MIME_TYPES
uploadInputOkAnyType(file) == file.size # 0 /\ file.size <= MAX_FILE_SIZE
uploadInputOkEmpty(file) ==
    file.size <= MAX_FILE_SIZE /\ file.type \in ALLOWED_MIME_TYPES

\* zfd.file(): an empty File counts as no file; then the two refinements.
uploadInputOk(file) ==
    /\ file.size # 0
    /\ file.size <= MAX_FILE_SIZE
    /\ file.type \in ALLOWED_MIME_TYPES

\* Names of candidate files.
NotesTxt == << "n", "o", "t", "e", "s", ".", "t", "x", "t" >>
InvoicePdf == << ".", ".", "/", "m", "y", " ", "i", "n", "v", ".", "p", "d", "f" >>
DotDot == << ".", "." >>

File(name, type, size) == [name |-> name, type |-> type, size |-> size]

\* The files a client may send: a text file, a PDF of the maximum size whose
\* name has path components and a character to replace, an image whose name
\* is only "..", and files the validation must refuse.
CandidateFiles ==
    { File(NotesTxt, "text/plain", 12),
      File(InvoicePdf, PDF, MAX_FILE_SIZE),
      File(DotDot, "image/png", 12),
      File(InvoicePdf, PDF, MAX_FILE_SIZE + 1),
      File(NotesTxt, "application/zip", 12),
      File(NotesTxt, "text/plain", 0) }

\* -------------------------------------------------------------------- state
VARIABLES
    db,         \* the document table: id -> Document row
    nextId,     \* the next autoincrement id
    files,      \* the upload directory: stored path -> size of the bytes written
    req,        \* the request slots: handler position and its local state
    todos,      \* the todo table: id -> Todo row
    nextTodoId, \* the next autoincrement id of the todo table
    todoReq,    \* the request slots of the todos router
    client      \* the state of the DocumentUpload component in the browser

vars == << db, nextId, files, req, todos, nextTodoId, todoReq, client >>

\* What the documents router and the file endpoint leave alone, and what the
\* todos router and the browser leave alone.
others == << todos, nextTodoId, todoReq, client >>
documents == << db, nextId, files, req >>

Reqs == 1..MaxReqs
DocIds == 1..MaxDocs

\* new Date() at the construction of a Document, as logical time: the number
\* of documents constructed so far.
Now == nextId

\* Variant: the type of the file is not copied into the document.
DocumentUntyped(id, file, now) ==
    [id |-> id, filename |-> file.name, fileSize |-> file.size,
     mimeType |-> "application/octet-stream", uploadedAt |-> now,
     status |-> UPLOADING, extractedData |-> None, storedPath |-> None]

\* new Document({filename, mimeType, fileSize}) : status defaults to UPLOADING.
Document(id, file, now) ==
    [id |-> id, filename |-> file.name, fileSize |-> file.size,
     mimeType |-> file.type, uploadedAt |-> now, status |-> UPLOADING,
     extractedData |-> None, storedPath |-> None]

NoFile == File(<< >>, "", 0)
NoDocument == Document(0, NoFile, 0)
NoCalls == [save |-> 0, text |-> 0, fetch |-> 0]
NoError == << >>

\* A request slot: pc is the handler position; file / id are the input; ent is
\* the entity in the request's identity map and snap its last flushed
\* snapshot; err is the error thrown to the caller; calls counts the service
\* invocations the request made; res is the response of a query.
\* The response of a query or of the file endpoint: the route that answered,
\* the HTTP status, Content-Type, Content-Length of a file body, Content-Range
\* (start, end, size), the number of file bytes the body carries, the message
\* of a JSON error body, and the rows a list returns.
NoResponse ==
    [route |-> "", status |-> 0, type |-> "", length |-> 0, range |-> None,
     body |-> 0, error |-> "", rows |-> << >>]

IdleReq ==
    [pc |-> "idle", file |-> NoFile, id |-> 0, ent |-> NoDocument,
     snap |-> NoDocument, err |-> NoError, calls |-> NoCalls,
     res |-> NoResponse]

\* A slot of the todos router: the input of the update, the entity loaded and
\* its snapshot, and the error thrown.
NoTodo ==
    [id |-> 0, title |-> "", description |-> None, completed |-> FALSE,
     createdAt |-> 0, updatedAt |-> 0]
NoTodoInput == [id |-> 0, title |-> None, description |-> None, completed |-> None]
IdleTodoReq ==
    [pc |-> "idle", input |-> NoTodoInput, ent |-> NoTodo, snap |-> NoTodo,
     err |-> NoError]

\* DocumentUpload: useState(null) for selectedFile, error and uploadStatus;
\* fileInput is the value of the file input element, pending is
\* uploadMutation.isPending, formData is the file appended to the FormData of
\* the mutation in flight, and timer tells that the timeout which clears the
\* status is running.
IdleClient ==
    [selectedFile |-> NoFile, error |-> NoError, uploadStatus |-> "",
     fileInput |-> NoFile, pending |-> FALSE, formData |-> NoFile,
     timer |-> FALSE]

Init ==
    /\ db = << >>
    /\ nextId = 1
    /\ files = << >>
    /\ req = [r \in Reqs |-> IdleReq]
    /\ todos = << >>
    /\ nextTodoId = 1
    /\ todoReq = [r \in Reqs |-> IdleTodoReq]
    /\ client = IdleClient

\* Variant: a flush that writes the whole entity, inserting the row when it
\* is gone.
FlushUpsert(table, ent, snap) ==
    [i \in DOMAIN table \cup { ent.id } |-> IF i = ent.id THEN ent ELSE table[i]]

\* em.flush(): UPDATE of the fields that differ from the snapshot, on the row
\* with the entity's id; a row that is gone is left gone.
Flush(table, ent, snap) ==
    IF ent.id \in DOMAIN table
    THEN [table EXCEPT ![ent.id] =
             [f \in DOMAIN ent |-> IF ent[f] # snap[f] THEN ent[f] ELSE @[f]]]
    ELSE table

\* em.persistAndFlush(new entity): INSERT with the next id.
Insert(table, ent) ==
    [i \in DOMAIN table \cup { ent.id } |-> IF i = ent.id THEN ent ELSE table[i]]

\* em.removeAndFlush: DELETE of the row.
Remove(table, id) == [i \in DOMAIN table \ { id } |-> table[i]]

WriteFile(fs, path, size) ==
    [p \in DOMAIN fs \cup { path } |-> IF p = path THEN size ELSE fs[p]]

Set(r, fields) == [req EXCEPT ![r] = fields]

\* Request slots are interchangeable: an arriving request takes the lowest
\* idle one.
Free(r) == req[r].pc = "idle" /\ \A q \in Reqs : q < r => req[q].pc # "idle"

Fail(r, msg) == Set(r, [req[r] EXCEPT !.pc = "failed", !.err = msg])

\* ---------------------------------------------------------- documents.upload
\* Variants: every file is processed; the test is inverted.
IsPdfFileAlways(file) == TRUE
IsPdfFileInverted(file) == file.type # PDF

\* file.type === 'application/pdf'
IsPdfFile(file) == file.type = PDF

\* Variants: the catch block leaves the status as it is; it puts the
\* constructor's default back.
FailureStatusKept(ent) == ent.status
FailureStatusReset(ent) == UPLOADING

\* The status the catch block gives a document whose upload failed.
FailureStatus(ent) == ERROR

\* The input is validated, the Document is constructed and persistAndFlush
\* inserts it; an input the schema refuses never reaches the handler.
UploadBegin(r, file) ==
    /\ Free(r)
    /\ IF ~uploadInputOk(file)
       THEN /\ req' = Set(r, [IdleReq EXCEPT !.pc = "failed", !.file = file,
                                              !.err = << "BAD_REQUEST" >>])
            /\ UNCHANGED << db, nextId >>
       ELSE /\ nextId <= MaxDocs
            /\ LET document == Document(nextId, file, Now)
               IN  /\ db' = Insert(db, document)
                   /\ req' = Set(r, [IdleReq EXCEPT !.pc = "save", !.file = file,
                                                    !.id = nextId,
                                                    !.ent = document,
                                                    !.snap = document])
            /\ nextId' = nextId + 1
    /\ UNCHANGED files
    /\ UNCHANGED others

\* Variant: the path is assigned to the document before the write is tried.
UploadSavePathFirst(r) ==
    /\ req[r].pc = "save"
    /\ LET q == req[r]
           called == [q EXCEPT !.calls.save = @ + 1,
                               !.ent.storedPath =
                                   Some(saveFileResult(q.ent.id, q.file.name))]
       IN  \E fsOk \in BOOLEAN :
             IF fsOk /\ saveFileWritable(q.ent.id, q.file.name)
             THEN /\ files' = WriteFile(files, saveFileTarget(q.ent.id, q.file.name),
                                        q.file.size)
                  /\ req' = Set(r, [called EXCEPT !.pc = "flushPath"])
             ELSE /\ req' = Set(r, [called EXCEPT !.pc = "catch",
                                                  !.err = << "saveFile failed" >>])
                  /\ UNCHANGED files
    /\ UNCHANGED << db, nextId >>
    /\ UNCHANGED others

\* saveFile(document.id, file.name, fileBuffer): mkdir and writeFile may fail
\* (disk full, permissions), and writeFile fails on a directory; on success
\* the returned path is assigned to document.storedPath.
UploadSave(r) ==
    /\ req[r].pc = "save"
    /\ LET q == req[r]
           called == [q EXCEPT !.calls.save = @ + 1]
       IN  \E fsOk \in BOOLEAN :
             IF fsOk /\ saveFileWritable(q.ent.id, q.file.name)
             THEN /\ files' = WriteFile(files, saveFileTarget(q.ent.id, q.file.name),
                                        q.file.size)
                  /\ req' = Set(r, [called EXCEPT
                                      !.pc = "flushPath",
                                      !.ent.storedPath =
                                          Some(saveFileResult(q.ent.id, q.file.name))])
             ELSE /\ req' = Set(r, [called EXCEPT !.pc = "catch",
                                                  !.err = << "saveFile failed" >>])
                  /\ UNCHANGED files
    /\ UNCHANGED << db, nextId >>
    /\ UNCHANGED others

\* em.flush() after document.storedPath = storedPath.
UploadFlushStoredPath(r) ==
    /\ req[r].pc = "flushPath"
    /\ db' = Flush(db, req[r].ent, req[r].snap)
    /\ req' = Set(r, [req[r] EXCEPT !.pc = "uploaded", !.snap = req[r].ent])
    /\ UNCHANGED << nextId, files >>
    /\ UNCHANGED others

\* document.status = UPLOADED; em.flush(); then a non-PDF is returned.
UploadMarkUploaded(r) ==
    /\ req[r].pc = "uploaded"
    /\ LET ent == [req[r].ent EXCEPT !.status = UPLOADED]
       IN  /\ db' = Flush(db, ent, req[r].snap)
           /\ req' = Set(r, [req[r] EXCEPT
                               !.pc = IF IsPdfFile(req[r].file) THEN "processing"
                                      ELSE "done",
                               !.ent = ent, !.snap = ent])
    /\ UNCHANGED << nextId, files >>
    /\ UNCHANGED others

\* document.status = PROCESSING; em.flush().
UploadMarkProcessing(r) ==
    /\ req[r].pc = "processing"
    /\ LET ent == [req[r].ent EXCEPT !.status = PROCESSING]
       IN  /\ db' = Flush(db, ent, req[r].snap)
           /\ req' = Set(r, [req[r] EXCEPT !.pc = "text", !.ent = ent, !.snap = ent])
    /\ UNCHANGED << nextId, files >>
    /\ UNCHANGED others

\* Variant: a failed text extraction is tried a second time.
UploadExtractTextRetry(r) ==
    /\ req[r].pc = "text"
    /\ LET called == [req[r] EXCEPT !.calls.text = @ + 1]
       IN  \E parsed \in BOOLEAN :
             req' = Set(r, IF parsed
                           THEN [called EXCEPT !.pc = "data"]
                           ELSE IF called.calls.text < 2
                           THEN called
                           ELSE [called EXCEPT
                                   !.pc = "catch",
                                   !.err = << "Failed to extract text from PDF" >>])
    /\ UNCHANGED << db, nextId, files >>
    /\ UNCHANGED others

\* extractTextFromPDF(fileBuffer): the parser returns text or throws.
UploadExtractText(r) ==
    /\ req[r].pc = "text"
    /\ LET called == [req[r] EXCEPT !.calls.text = @ + 1]
       IN  \E parsed \in BOOLEAN :
             req' = Set(r, IF parsed
                           THEN [called EXCEPT !.pc = "data"]
                           ELSE [called EXCEPT
                                   !.pc = "catch",
                                   !.err = << "Failed to extract text from PDF" >>])
    /\ UNCHANGED << db, nextId, files >>
    /\ UNCHANGED others

\* extractDataFromText(text); on success document.extractedData and
\* document.status = REVIEW are assigned, to be flushed next.  The API key
\* comes from the environment of the deployment: either configuration is
\* covered at every call.  Of the error only the wrapping message is kept.
UploadExtractData(r) ==
    /\ req[r].pc = "data"
    /\ \E keySet \in BOOLEAN, resp \in ApiResponses :
         LET res == extractDataFromText(keySet, resp)
             called == [req[r] EXCEPT !.calls.fetch = @ + (IF keySet THEN 1 ELSE 0)]
         IN  req' = Set(r, IF res.ok
                               THEN [called EXCEPT
                                       !.pc = "flushReview",
                                       !.ent.extractedData = Some(res.data),
                                       !.ent.status = REVIEW]
                               ELSE [called EXCEPT
                                       !.pc = "catch",
                                       !.err = << "Failed to extract data from text" >>])
    /\ UNCHANGED << db, nextId, files >>
    /\ UNCHANGED others

\* em.flush() of extractedData and REVIEW; the document is returned.
UploadFlushReview(r) ==
    /\ req[r].pc = "flushReview"
    /\ db' = Flush(db, req[r].ent, req[r].snap)
    /\ req' = Set(r, [req[r] EXCEPT !.pc = "done", !.snap = req[r].ent])
    /\ UNCHANGED << nextId, files >>
    /\ UNCHANGED others

\* Variant: the catch block rethrows without recording the failure.
UploadCatchSwallow(r) ==
    /\ req[r].pc = "catch"
    /\ req' = Set(r, [req[r] EXCEPT !.pc = "failed",
                                    !.err = << "Upload failed" >> \o req[r].err])
    /\ UNCHANGED << db, nextId, files >>
    /\ UNCHANGED others

\* catch: the failure status is set and flushed, and the error is rethrown
\* wrapped in 'Upload failed: '.
UploadCatch(r) ==
    /\ req[r].pc = "catch"
    /\ LET ent == [req[r].ent EXCEPT !.status = FailureStatus(req[r].ent)]
       IN  /\ db' = Flush(db, ent, req[r].snap)
           /\ req' = Set(r, [req[r] EXCEPT
                               !.pc = "failed", !.ent = ent, !.snap = ent,
                               !.err = << "Upload failed" >> \o req[r].err])
    /\ UNCHANGED << nextId, files >>
    /\ UNCHANGED others

\* ---------------------------------------------------- documents.updateStatus
\* z.enum([DOCUMENT_STATUS.COMPLETED])
updateStatusInputOk(status) == status = COMPLETED

\* Variants: no guard; a guard that lets a completed document through.
CanCompleteAlways(ent) == TRUE
CanCompleteAgain(ent) == ent.status \in { REVIEW, COMPLETED }

\* The guard of the approval: the document must be in review.
CanComplete(ent) == ent.status = REVIEW

\* Statuses a client may put in the request.
RequestedStatuses == { COMPLETED, UPLOADED }

\* Input validation, then em.findOneOrFail(Document, input.id).
UpdateStatusBegin(r, id, status) ==
    /\ Free(r)
    /\ req' = Set(r, IF ~updateStatusInputOk(status)
                     THEN [IdleReq EXCEPT !.pc = "failed", !.id = id,
                                          !.err = << "BAD_REQUEST" >>]
                     ELSE IF id \notin DOMAIN db
                     THEN [IdleReq EXCEPT !.pc = "failed", !.id = id,
                                          !.err = << "NotFoundError" >>]
                     ELSE [IdleReq EXCEPT !.pc = "complete", !.id = id,
                                          !.ent = db[id], !.snap = db[id]])
    /\ UNCHANGED << db, nextId, files >>
    /\ UNCHANGED others

\* The status check; then document.status = input.status and em.flush().
UpdateStatusComplete(r) ==
    /\ req[r].pc = "complete"
    /\ IF ~CanComplete(req[r].ent)
       THEN /\ req' = Fail(r, << "Document must be in review status to complete." >>)
            /\ UNCHANGED db
       ELSE LET ent == [req[r].ent EXCEPT !.status = COMPLETED]
            IN  /\ db' = Flush(db, ent, req[r].snap)
                /\ req' = Set(r, [req[r] EXCEPT !.pc = "done", !.ent = ent,
                                                !.snap = ent])
    /\ UNCHANGED << nextId, files >>
    /\ UNCHANGED others

\* ---------------------------------------------------------- documents.delete
\* em.findOneOrFail(Document, input.id)
DeleteBegin(r, id) ==
    /\ Free(r)
    /\ req' = Set(r, IF id \notin DOMAIN db
                     THEN [IdleReq EXCEPT !.pc = "failed", !.id = id,
                                          !.err = << "NotFoundError" >>]
                     ELSE [IdleReq EXCEPT !.pc = "remove", !.id = id,
                                          !.ent = db[id], !.snap = db[id]])
    /\ UNCHANGED << db, nextId, files >>
    /\ UNCHANGED others

\* Variant: the stored file is removed together with the row.
DeleteRemoveWithFile(r) ==
    /\ req[r].pc = "remove"
    /\ db' = Remove(db, req[r].id)
    /\ files' = [p \in { q \in DOMAIN files : q[1] # toString(req[r].id) }
                    |-> files[p]]
    /\ req' = Set(r, [req[r] EXCEPT !.pc = "done"])
    /\ UNCHANGED nextId
    /\ UNCHANGED others

\* em.removeAndFlush(document); { success: true } is returned.
DeleteRemove(r) ==
    /\ req[r].pc = "remove"
    /\ db' = Remove(db, req[r].id)
    /\ req' = Set(r, [req[r] EXCEPT !.pc = "done"])
    /\ UNCHANGED << nextId, files >>
    /\ UNCHANGED others

\* The response has been delivered; the slot serves the next request.
Respond(r) ==
    /\ req[r].pc \in { "done", "failed" }
    /\ req' = Set(r, IdleReq)
    /\ UNCHANGED << db, nextId, files >>
    /\ UNCHANGED others

Next ==
    \E r \in Reqs :
        \/ \E file \in CandidateFiles : UploadBegin(r, file)
        \/ UploadSave(r)
        \/ UploadFlushStoredPath(r)
        \/ UploadMarkUploaded(r)
        \/ UploadMarkProcessing(r)
        \/ UploadExtractText(r)
        \/ UploadExtractData(r)
        \/ UploadFlushReview(r)
        \/ UploadCatch(r)
        \/ \E id \in DocIds, status \in RequestedStatuses :
               UpdateStatusBegin(r, id, status)
        \/ UpdateStatusComplete(r)
        \/ \E id \in DocIds : DeleteBegin(r, id)
        \/ DeleteRemove(r)
        \/ Respond(r)

Spec == Init /\ [][Next]_vars

\* ------------------------------------------- documents.list, documents.get
\* em.find(Document, {}): all rows are returned.
List(r) ==
    /\ Free(r)
    /\ req' = Set(r, [IdleReq EXCEPT !.pc = "done",
                                     !.res = [NoResponse EXCEPT !.route = "list",
                                                                !.rows = db]])
    /\ UNCHANGED << db, nextId, files >>
    /\ UNCHANGED others

\* em.findOneOrFail(Document, input.id): the row is returned, or the lookup
\* throws.
Get(r, id) ==
    /\ Free(r)
    /\ LET res == [NoResponse EXCEPT !.route = "get"]
       IN  req' = Set(r, IF id \notin DOMAIN db
                         THEN [IdleReq EXCEPT !.pc = "failed", !.id = id,
                                              !.err = << "NotFoundError" >>,
                                              !.res = res]
                         ELSE [IdleReq EXCEPT !.pc = "done", !.id = id,
                                              !.ent = db[id], !.snap = db[id],
                                              !.res = res])
    /\ UNCHANGED << db, nextId, files >>
    /\ UNCHANGED others

\* ------------------------------------------- GET /api/documents/:id/file
\* A Range header 'bytes=<start>-<end>' or 'bytes=<start>-'; NoRange is a
\* request without the header.
NoRange == [start |-> 0, end |-> None, given |-> FALSE]
Bytes(start, end) == [start |-> start, end |-> end, given |-> TRUE]

\* res.status(code).json({ error }): status, type and length become those of
\* the JSON body, which carries no file bytes; other headers stay as set.
Json(res, status, error) ==
    [res EXCEPT !.route = "file", !.status = status,
                !.type = "application/json", !.error = error,
                !.length = 0, !.body = 0]

\* The bytes fs.createReadStream(filePath, { start, end }) delivers: from
\* start to end inclusive, and no further than the end of the file.
ReadStream(fileSize, start, end) ==
    IF start >= fileSize THEN 0
    ELSE (IF end < fileSize THEN end ELSE fileSize - 1) - start + 1

\* Variant: an omitted end is read as the size of the file.
LastByteIsSize(fileSize) == fileSize

\* The end of a range whose end is omitted.
LastByte(fileSize) == fileSize - 1

\* Variant: the type sent is always that of a PDF.
ContentTypePdf(document) == PDF

\* res.setHeader('Content-Type', document.mimeType)
ContentType(document) == document.mimeType

\* The headers and the stream of a file of fileSize bytes.  With a Range
\* header the status becomes 206 and Content-Range / Content-Length are
\* computed from the header as it is; createReadStream throws when start is
\* above end, and the catch block answers 500 on the response as it stands.
Serve(document, fileSize, range) ==
    LET typed == [NoResponse EXCEPT !.route = "file",
                                    !.type = ContentType(document)]
    IN  IF ~range.given
        THEN [typed EXCEPT !.status = 200, !.length = fileSize,
                           !.body = ReadStream(fileSize, 0, LastByte(fileSize))]
        ELSE LET start == range.start
                 end == IF IsSet(range.end) THEN range.end[1]
                        ELSE LastByte(fileSize)
                 chunkSize == end - start + 1
                 partial == [typed EXCEPT !.status = 206,
                                          !.range = Some(<< start, end, fileSize >>),
                                          !.length = chunkSize]
             IN  IF start > end
                 THEN Json(partial, 500, "Internal server error")
                 ELSE [partial EXCEPT !.body = ReadStream(fileSize, start, end)]

\* fileExists(storedPath): getFilePath accepts the path and fs.access finds
\* the file.
fileExists(fs, storedPath) ==
    getFilePathOk(storedPath) /\ getFilePath(storedPath) \in DOMAIN fs

\* parseInt(req.params.id, 10) of a parameter that is no number.
NaN == -1

\* Document ids a client may ask for: those that may exist, one that never
\* does, and a parameter that is no number.
RequestedIds == DocIds \cup { MaxDocs + 1, NaN }

\* The Range headers a client may send: none, the whole file, its first byte,
\* an inner range, the last byte of the largest file, and ranges that start at
\* or end after the end of a small file, or end before they start.
RangeHeaders ==
    { NoRange, Bytes(0, None), Bytes(0, Some(0)), Bytes(5, Some(11)),
      Bytes(MAX_FILE_SIZE - 1, None), Bytes(0, Some(12)), Bytes(12, None),
      Bytes(11, Some(5)) }

\* The id is parsed and the document is looked up with em.findOne.
FileBegin(r, param) ==
    /\ Free(r)
    /\ req' = Set(r, IF param = NaN
                     THEN [IdleReq EXCEPT
                             !.pc = "done",
                             !.res = Json(NoResponse, 400, "Invalid document ID")]
                     ELSE IF param \notin DOMAIN db \/ ~IsSet(db[param].storedPath)
                     THEN [IdleReq EXCEPT
                             !.pc = "done", !.id = param,
                             !.res = Json(NoResponse, 404, "Document not found")]
                     ELSE [IdleReq EXCEPT !.pc = "exists", !.id = param,
                                          !.ent = db[param], !.snap = db[param]])
    /\ UNCHANGED << db, nextId, files >>
    /\ UNCHANGED others

\* fileExists, then statSync, the headers and the stream.  The Range header
\* is part of the request; it is first read here.
FileServe(r, range) ==
    /\ req[r].pc = "exists"
    /\ LET storedPath == req[r].ent.storedPath[1]
       IN  req' = Set(r, [req[r] EXCEPT
                            !.pc = "done",
                            !.res = IF ~fileExists(files, storedPath)
                                    THEN Json(NoResponse, 404,
                                              "File not found on disk")
                                    ELSE Serve(req[r].ent,
                                               files[getFilePath(storedPath)],
                                               range)])
    /\ UNCHANGED << db, nextId, files >>
    /\ UNCHANGED others

\* A stored file disappears from the upload directory (the directory is
\* cleaned or replaced outside the server).
FileLost(path) ==
    /\ path \in DOMAIN files
    /\ files' = [p \in DOMAIN files \ { path } |-> files[p]]
    /\ UNCHANGED << db, nextId, req >>
    /\ UNCHANGED others

\* No request is in flight.
Quiet == \A q \in Reqs : req[q].pc = "idle"

\* The file uploaded while documents are listed, fetched and deleted.
QueriedFiles == { File(NotesTxt, "text/plain", 12) }

\* Uploads of a text file, deletes and queries, interleaved.
NextQuery ==
    \E r \in Reqs :
        \/ \E file \in QueriedFiles : UploadBegin(r, file)
        \/ UploadSave(r)
        \/ UploadFlushStoredPath(r)
        \/ UploadMarkUploaded(r)
        \/ UploadCatch(r)
        \/ \E id \in DocIds : DeleteBegin(r, id)
        \/ DeleteRemove(r)
        \/ List(r)
        \/ \E id \in DocIds : Get(r, id)
        \/ Respond(r)

SpecQuery == Init /\ [][NextQuery]_vars

\* The files uploaded before they are served.
ServedFiles ==
    { File(NotesTxt, "text/plain", 12), File(InvoicePdf, PDF, MAX_FILE_SIZE) }

\* The file endpoint next to the procedures that create, complete and delete
\* documents: these run one after the other, a file request at any time, and
\* stored files may disappear.
NextServe ==
    \/ \E r \in Reqs :
        \/ \E file \in ServedFiles : Quiet /\ UploadBegin(r, file)
        \/ UploadSave(r)
        \/ UploadFlushStoredPath(r)
        \/ UploadMarkUploaded(r)
        \/ UploadMarkProcessing(r)
        \/ UploadExtractText(r)
        \/ UploadExtractData(r)
        \/ UploadFlushReview(r)
        \/ UploadCatch(r)
        \/ \E id \in DocIds : Quiet /\ UpdateStatusBegin(r, id, COMPLETED)
        \/ UpdateStatusComplete(r)
        \/ \E id \in DocIds : Quiet /\ DeleteBegin(r, id)
        \/ DeleteRemove(r)
        \/ \E param \in RequestedIds : FileBegin(r, param)
        \/ \E range \in RangeHeaders : FileServe(r, range)
        \/ Respond(r)
    \/ \E path \in DOMAIN files : FileLost(path)

SpecServe == Init /\ [][NextServe]_vars

\* ------------------------------------------------ uploads, one at a time
\* File names a client may send: every string of at most MaxNameLen
\* characters over a letter, the dot, the path separator and a character
\* sanitizeFilename replaces; the empty name is among them.
NameChars == { "a", ".", "/", " " }
Names == UNION { [1..n -> NameChars] : n \in 0..MaxNameLen }

\* A name one character longer than the longest name a document may have.
LongName == [i \in 1..(MaxFilenameLength + 1) |-> "a"]

\* Small files of every name, of the long name, and of every allowed type.
InputFiles ==
    { File(name, "text/plain", 12) : name \in Names \cup { LongName } }
        \cup { File(NotesTxt, type, 12) : type \in ALLOWED_MIME_TYPES }

\* documents.upload called again and again, each call after the one before has
\* been answered.
NextInputs ==
    \E r \in Reqs :
        \/ \E file \in InputFiles : Quiet /\ UploadBegin(r, file)
        \/ UploadSave(r)
        \/ UploadFlushStoredPath(r)
        \/ UploadMarkUploaded(r)
        \/ UploadMarkProcessing(r)
        \/ UploadExtractText(r)
        \/ UploadExtractData(r)
        \/ UploadFlushReview(r)
        \/ UploadCatch(r)
        \/ Respond(r)

SpecInputs == Init /\ [][NextInputs]_vars

\* ------------------------------------------------- uploads run to their end
\* Concurrent uploads of a text file and of a PDF, and nothing else.
NextLive ==
    \E r \in Reqs :
        \/ \E file \in ServedFiles : UploadBegin(r, file)
        \/ UploadSave(r)
        \/ UploadFlushStoredPath(r)
        \/ UploadMarkUploaded(r)
        \/ UploadMarkProcessing(r)
        \/ UploadExtractText(r)
        \/ UploadExtractData(r)
        \/ UploadFlushReview(r)
        \/ UploadCatch(r)
        \/ Respond(r)

\* The event loop resumes a handler once the promise it awaits has settled:
\* every step of a running upload is eventually taken.  Nothing makes a client
\* send a request or read its response.
LiveFairness ==
    \A r \in Reqs :
        /\ WF_vars(UploadSave(r))
        /\ WF_vars(UploadFlushStoredPath(r))
        /\ WF_vars(UploadMarkUploaded(r))
        /\ WF_vars(UploadMarkProcessing(r))
        /\ WF_vars(UploadExtractText(r))
        /\ WF_vars(UploadExtractData(r))
        /\ WF_vars(UploadFlushReview(r))
        /\ WF_vars(UploadCatch(r))

SpecLive == Init /\ [][NextLive]_vars /\ LiveFairness

\* ------------------------------------------------------------ todos router
\* new Date() in the todos router, as logical time: the number of todos
\* constructed so far.
TodoNow == nextTodoId

\* new Todo({ title, description }): not completed, both dates now.
Todo(id, title, description, now) ==
    [id |-> id, title |-> title, description |-> description,
     completed |-> FALSE, createdAt |-> now, updatedAt |-> now]

TodoInput(id, title, description, completed) ==
    [id |-> id, title |-> title, description |-> description,
     completed |-> completed]

\* The input schema of todos.update: a title, when given, is not empty.
todoUpdateInputOk(input) == IsSet(input.title) => input.title[1] # ""

\* The inputs of todos.update a client may send: any subset of the three
\* fields for the ids that may exist, and an input for an id that never
\* exists and one with an empty title.
TodoUpdates ==
    { TodoInput(id, title, description, completed) :
        id \in 1..MaxTodos,
        title \in { None, Some("b") },
        description \in { None, Some("d") },
        completed \in { None, Some(TRUE) } }
        \cup { TodoInput(MaxTodos + 1, Some("b"), None, None),
               TodoInput(1, Some(""), Some("d"), None) }

\* Variant: every field of the input is assigned, given or not.
AssignAll(todo, input) ==
    [todo EXCEPT !.title = IF IsSet(input.title) THEN input.title[1] ELSE "",
                 !.description = input.description,
                 !.completed = IF IsSet(input.completed) THEN input.completed[1]
                               ELSE FALSE]

\* if (input.f !== undefined) todo.f = input.f, for the three fields.
Assign(todo, input) ==
    [todo EXCEPT !.title = IF IsSet(input.title) THEN input.title[1] ELSE @,
                 !.description = IF IsSet(input.description)
                                 THEN input.description ELSE @,
                 !.completed = IF IsSet(input.completed) THEN input.completed[1]
                               ELSE @]

\* em.flush() of a Todo: nothing is written when nothing changed; otherwise
\* onUpdate sets updatedAt and the changed fields are written.
TodoFlush(table, ent, snap, now) ==
    IF ent = snap THEN table
    ELSE Flush(table, [ent EXCEPT !.updatedAt = now], snap)

SetTodo(r, fields) == [todoReq EXCEPT ![r] = fields]
FreeTodo(r) ==
    todoReq[r].pc = "idle" /\ \A q \in Reqs : q < r => todoReq[q].pc # "idle"

\* todos.create: persistAndFlush of a new Todo.
TodoCreate(r, title, description) ==
    /\ FreeTodo(r)
    /\ nextTodoId <= MaxTodos
    /\ LET todo == Todo(nextTodoId, title, description, TodoNow)
       IN  /\ todos' = Insert(todos, todo)
           /\ todoReq' = SetTodo(r, [IdleTodoReq EXCEPT !.pc = "done",
                                                        !.ent = todo,
                                                        !.snap = todo])
    /\ nextTodoId' = nextTodoId + 1
    /\ UNCHANGED << client, documents >>

\* todos.update: the input is validated and em.findOneOrFail loads the todo.
TodoUpdateBegin(r, input) ==
    /\ FreeTodo(r)
    /\ todoReq' = SetTodo(r,
          IF ~todoUpdateInputOk(input)
          THEN [IdleTodoReq EXCEPT !.pc = "failed", !.input = input,
                                   !.err = << "BAD_REQUEST" >>]
          ELSE IF input.id \notin DOMAIN todos
          THEN [IdleTodoReq EXCEPT !.pc = "failed", !.input = input,
                                   !.err = << "NotFoundError" >>]
          ELSE [IdleTodoReq EXCEPT !.pc = "flush", !.input = input,
                                   !.ent = todos[input.id],
                                   !.snap = todos[input.id]])
    /\ UNCHANGED << todos, nextTodoId, client, documents >>

\* The supplied fields are assigned and em.flush() writes what changed; the
\* todo is returned.
TodoUpdateFlush(r) ==
    /\ todoReq[r].pc = "flush"
    /\ LET ent == Assign(todoReq[r].ent, todoReq[r].input)
           written == IF ent = todoReq[r].snap THEN ent
                      ELSE [ent EXCEPT !.updatedAt = TodoNow]
       IN  /\ todos' = TodoFlush(todos, ent, todoReq[r].snap, TodoNow)
           /\ todoReq' = SetTodo(r, [todoReq[r] EXCEPT !.pc = "done",
                                                       !.ent = written,
                                                       !.snap = written])
    /\ UNCHANGED << nextTodoId, client, documents >>

\* todos.delete: em.findOneOrFail, then removeAndFlush.
TodoDeleteBegin(r, id) ==
    /\ FreeTodo(r)
    /\ todoReq' = SetTodo(r,
          IF id \notin DOMAIN todos
          THEN [IdleTodoReq EXCEPT !.pc = "failed",
                                   !.err = << "NotFoundError" >>]
          ELSE [IdleTodoReq EXCEPT !.pc = "remove", !.ent = todos[id],
                                   !.snap = todos[id]])
    /\ UNCHANGED << todos, nextTodoId, client, documents >>

TodoDeleteRemove(r) ==
    /\ todoReq[r].pc = "remove"
    /\ todos' = Remove(todos, todoReq[r].ent.id)
    /\ todoReq' = SetTodo(r, [todoReq[r] EXCEPT !.pc = "done"])
    /\ UNCHANGED << nextTodoId, client, documents >>

\* The response has been delivered.
TodoRespond(r) ==
    /\ todoReq[r].pc \in { "done", "failed" }
    /\ todoReq' = SetTodo(r, IdleTodoReq)
    /\ UNCHANGED << todos, nextTodoId, client, documents >>

\* No request of the todos router is in flight.
QuietTodos == \A q \in Reqs : todoReq[q].pc = "idle"

\* Todos are created one after the other; updates and deletes interleave.
NextTodos ==
    \E r \in Reqs :
        \/ QuietTodos /\ TodoCreate(r, "a", Some("c"))
        \/ \E input \in TodoUpdates : TodoUpdateBegin(r, input)
        \/ TodoUpdateFlush(r)
        \/ \E id \in 1..MaxTodos : TodoDeleteBegin(r, id)
        \/ TodoDeleteRemove(r)
        \/ TodoRespond(r)

SpecTodos == Init /\ [][NextTodos]_vars

\* ------------------------------------------------ a flush that is refused
\* em.flush() inside the try block throws (the database is busy or cannot
\* write): the assignment made before it stays on the entity, nothing is
\* written, the snapshot of the entity stays as it was loaded or last
\* written, and control passes to the catch block.
UploadFlushFails(r) ==
    /\ req[r].pc \in { "flushPath", "uploaded", "processing", "flushReview" }
    /\ LET ent == CASE req[r].pc = "uploaded" ->
                         [req[r].ent EXCEPT !.status = UPLOADED]
                    [] req[r].pc = "processing" ->
                         [req[r].ent EXCEPT !.status = PROCESSING]
                    [] OTHER -> req[r].ent
       IN  req' = Set(r, [req[r] EXCEPT !.pc = "catch", !.ent = ent,
                                        !.err = << "flush failed" >>])
    /\ UNCHANGED << db, nextId, files >>
    /\ UNCHANGED others

\* em.flush() inside the catch block throws: its error leaves the handler in
\* place of the wrapped one, and nothing is written.
UploadCatchFlushFails(r) ==
    /\ req[r].pc = "catch"
    /\ req' = Set(r, [req[r] EXCEPT
                        !.pc = "failed",
                        !.ent.status = FailureStatus(req[r].ent),
                        !.err = << "flush failed" >>])
    /\ UNCHANGED << db, nextId, files >>
    /\ UNCHANGED others

\* The files uploaded while flushes may fail: a PDF and an image.
FlushedFiles ==
    { [name |-> << "a" >>, type |-> PDF, size |-> 12],
      [name |-> << "a" >>, type |-> "image/png", size |-> 12] }

\* Uploads whose flushes may be refused, each started while the server is
\* quiet, and completions of the documents they leave.
NextFlush ==
    \E r \in Reqs :
        \/ \E file \in FlushedFiles : Quiet /\ UploadBegin(r, file)
        \/ UploadSave(r)
        \/ UploadFlushStoredPath(r)
        \/ UploadMarkUploaded(r)
        \/ UploadMarkProcessing(r)
        \/ UploadExtractText(r)
        \/ UploadExtractData(r)
        \/ UploadFlushReview(r)
        \/ UploadFlushFails(r)
        \/ UploadCatch(r)
        \/ UploadCatchFlushFails(r)
        \/ \E id \in DocIds : Quiet /\ UpdateStatusBegin(r, id, COMPLETED)
        \/ UpdateStatusComplete(r)
        \/ Respond(r)

SpecFlush == Init /\ [][NextFlush]_vars

\* ------------------------------------------------------- DocumentUpload
\* The checks of validateAndSelectFile (and of Sidebar.handleFileChange):
\* isAllowedMimeType(file.type) and file.size <= MAX_FILE_SIZE.
clientPreCheck(file) ==
    file.type \in ALLOWED_MIME_TYPES /\ file.size <= MAX_FILE_SIZE

\* The message set by validateAndSelectFile for a file it refuses.
preCheckError(file) ==
    IF file.type \notin ALLOWED_MIME_TYPES
    THEN << "File type is not allowed" >>
    ELSE << "File size exceeds maximum" >>

\* The files a user may pick: empty, small, of the maximum size and above
\* it, of two allowed types and of one that is not allowed.
PickedFiles ==
    { File(<< "a" >>, type, size) :
        type \in { PDF, "image/png", "application/zip" },
        size \in { 0, 12, MAX_FILE_SIZE, MAX_FILE_SIZE + 1 } }

\* The change event of the file input: the error is cleared; without a file
\* (NoFile: the dialog was cancelled) the selection is cleared; a file the
\* pre-check refuses sets the error, clears the selection and resets the
\* input; any other file is selected.
validateAndSelectFile(file) ==
    /\ client' =
         IF file = NoFile
         THEN [client EXCEPT !.error = NoError, !.selectedFile = NoFile,
                             !.fileInput = NoFile]
         ELSE IF ~clientPreCheck(file)
         THEN [client EXCEPT !.error = preCheckError(file),
                             !.selectedFile = NoFile, !.fileInput = NoFile]
         ELSE [client EXCEPT !.error = NoError, !.selectedFile = file,
                             !.fileInput = file]
    /\ UNCHANGED << todos, nextTodoId, todoReq, documents >>

\* handleUpload up to the await: the button is enabled with a file selected
\* and no mutation pending; the error is cleared, the status indicator shows
\* uploading and the selected file is sent.
handleUpload ==
    /\ client.selectedFile # NoFile
    /\ ~client.pending
    /\ client' = [client EXCEPT !.error = NoError, !.uploadStatus = UPLOADING,
                                !.pending = TRUE,
                                !.formData = client.selectedFile]
    /\ UNCHANGED << todos, nextTodoId, todoReq, documents >>

\* The request of the pending mutation reaches the server.
Arrived == \E q \in Reqs : req[q].pc # "idle"

\* handleUpload after the await: the response of the server is delivered.
\* On success the indicator shows uploaded, the selection is cleared, the
\* input is reset and the timeout is started; on failure the indicator shows
\* the error status and the message of the error is displayed.
handleUploadSettled(r) ==
    /\ client.pending
    /\ req[r].pc \in { "done", "failed" }
    /\ client' =
         IF req[r].pc = "done"
         THEN [client EXCEPT !.uploadStatus = UPLOADED, !.selectedFile = NoFile,
                             !.fileInput = NoFile, !.pending = FALSE,
                             !.formData = NoFile, !.timer = TRUE]
         ELSE [client EXCEPT !.uploadStatus = ERROR, !.error = req[r].err,
                             !.pending = FALSE, !.formData = NoFile]
    /\ req' = Set(r, IdleReq)
    /\ UNCHANGED << db, nextId, files, todos, nextTodoId, todoReq >>

\* setTimeout(() => setUploadStatus(null), 2000)
clearUploadStatus ==
    /\ client.timer
    /\ client' = [client EXCEPT !.uploadStatus = "", !.timer = FALSE]
    /\ UNCHANGED << todos, nextTodoId, todoReq, documents >>

\* The browser and the server: the user picks files and presses Upload, the
\* request of the pending mutation arrives, the handler runs, and the
\* response is delivered to the component.
NextClient ==
    \/ \E file \in PickedFiles \cup { NoFile } : validateAndSelectFile(file)
    \/ handleUpload
    \/ clearUploadStatus
    \/ \E r \in Reqs :
        \/ client.pending /\ ~Arrived /\ UploadBegin(r, client.formData)
        \/ UploadSave(r)
        \/ UploadFlushStoredPath(r)
        \/ UploadMarkUploaded(r)
        \/ UploadMarkProcessing(r)
        \/ UploadExtractText(r)
        \/ UploadExtractData(r)
        \/ UploadFlushReview(r)
        \/ UploadCatch(r)
        \/ handleUploadSettled(r)

SpecClient == Init /\ [][NextClient]_vars

\* ------------------------------------------------- the list in the browser
\* refetchInterval of the documents.list query: 2000 ms while a document of
\* the fetched list is at uploading or processing, and otherwise false (0:
\* polling is off).
refetchInterval(list) ==
    IF \E id \in DOMAIN list : list[id].status \in { UPLOADING, PROCESSING }
    THEN 2000
    ELSE 0

\* ================================================================== claims
IsUpload(q) == q.file # NoFile
UploadFailed(q) == q.pc = "failed" /\ Len(q.err) > 0 /\ q.err[1] = "Upload failed"
InFlightUpload(q) ==
    q.pc \in { "save", "flushPath", "uploaded", "processing", "text", "data",
               "flushReview", "catch" }
PreconditionError == << "Document must be in review status to complete." >>

\* The transition graph of the persisted status.
StatusEdges ==
    { << UPLOADING, UPLOADED >>, << UPLOADED, PROCESSING >>,
      << PROCESSING, REVIEW >>, << REVIEW, COMPLETED >>,
      << UPLOADING, ERROR >>, << UPLOADED, ERROR >>, << PROCESSING, ERROR >> }

\* C1: in every step, the persisted status of every document that stays in the
\* table is unchanged or moves along one edge of uploading -> uploaded ->
\* processing -> review -> completed or from uploading / uploaded / processing
\* to error (so it never moves backward and never leaves completed or error),
\* and no persisted document has extractedData without storedPath.
C1_StatusMonotonic ==
    [][ /\ \A id \in DOMAIN db \cap DOMAIN db' :
             \/ db'[id].status = db[id].status
             \/ << db[id].status, db'[id].status >> \in StatusEdges
        /\ \A id \in DOMAIN db' :
             IsSet(db'[id].extractedData) => IsSet(db'[id].storedPath) ]_vars

C1_Witness ==
    \E i, j \in DOMAIN db :
        /\ db[i].status = COMPLETED /\ IsSet(db[i].extractedData)
        /\ db[j].status = ERROR /\ IsSet(db[j].storedPath)

\* C2: when an upload has failed after its record was created (the caller holds
\* the 'Upload failed' error), the persisted record, if it still exists, has
\* status error; and a document persisted at uploading, processing, or (for a
\* PDF) uploaded always has its upload request still in flight.
C2_FailedUploadIsError ==
    /\ \A r \in Reqs :
         UploadFailed(req[r]) /\ req[r].id \in DOMAIN db
            => db[req[r].id].status = ERROR
    /\ \A id \in DOMAIN db :
         (\/ db[id].status \in { UPLOADING, PROCESSING }
          \/ db[id].status = UPLOADED /\ db[id].mimeType = PDF)
            => \E r \in Reqs : InFlightUpload(req[r]) /\ req[r].id = id

C2_Witness ==
    \E r \in Reqs :
        /\ UploadFailed(req[r])
        /\ req[r].err = << "Upload failed", "Failed to extract text from PDF" >>
        /\ req[r].id \in DOMAIN db
        /\ db[req[r].id].status = ERROR

\* The status the claim names for a failure after the bytes were stored.
PARSE_ERROR == "parse_error"

\* C3: a failed upload whose document has storedPath set leaves the document
\* at PARSE_ERROR, and at ERROR only when storedPath is unset.
C3_ParseErrorAfterStore ==
    \A r \in Reqs :
        UploadFailed(req[r]) =>
            req[r].ent.status =
                (IF IsSet(req[r].ent.storedPath) THEN PARSE_ERROR ELSE ERROR)

\* The request's saveFile threw.
SaveFailed(q) == Len(q.err) > 0 /\ q.err[Len(q.err)] = "saveFile failed"

\* C4: a request whose saveFile threw is in or past the catch block, has
\* invoked neither text extraction nor the AI call, and its document has no
\* storedPath, in memory or persisted; once the request has reported failure
\* the document is persisted with status error.
C4_SaveFailure ==
    \A r \in Reqs :
        SaveFailed(req[r]) =>
            /\ req[r].pc \in { "catch", "failed" }
            /\ req[r].calls.text = 0
            /\ req[r].calls.fetch = 0
            /\ ~IsSet(req[r].ent.storedPath)
            /\ req[r].id \in DOMAIN db => ~IsSet(db[req[r].id].storedPath)
            /\ (req[r].pc = "failed" /\ req[r].id \in DOMAIN db)
                  => db[req[r].id].status = ERROR

C4_Witness ==
    \E r \in Reqs :
        /\ SaveFailed(req[r])
        /\ UploadFailed(req[r])
        /\ req[r].id \in DOMAIN db
        /\ db[req[r].id].status = ERROR
        /\ ~IsSet(db[req[r].id].storedPath)

\* C5: when updateStatus has looked up a document whose status is not review,
\* its next step fails with the precondition error and leaves the whole table
\* unchanged.
C5_RejectsNonReview ==
    [][ \A r \in Reqs :
          (/\ req[r].pc = "complete"
           /\ req[r].ent.status # REVIEW
           /\ req'[r] # req[r])
             => /\ req'[r].pc = "failed"
                /\ req'[r].err = PreconditionError
                /\ db' = db ]_vars

C5_Witness ==
    \E r \in Reqs :
        /\ req[r].pc = "failed"
        /\ req[r].err = PreconditionError
        /\ req[r].ent.status = ERROR
        /\ req[r].id \in DOMAIN db
        /\ db[req[r].id] = req[r].ent

\* C6: updateStatus on a document looked up in review succeeds and persists
\* completed; updateStatus on a document looked up as completed fails; and a
\* step changes a completed document only by deleting it.
C6_CompleteOnce ==
    [][ /\ \A r \in Reqs :
             (req[r].pc = "complete" /\ req'[r] # req[r]) =>
                 /\ req[r].ent.status = REVIEW =>
                       /\ req'[r].pc = "done"
                       /\ req'[r].ent.status = COMPLETED
                       /\ req[r].id \in DOMAIN db =>
                             db'[req[r].id].status = COMPLETED
                 /\ req[r].ent.status = COMPLETED =>
                       /\ req'[r].pc = "failed"
                       /\ req'[r].err = PreconditionError
        /\ \A id \in DOMAIN db :
             db[id].status = COMPLETED =>
                 (id \notin DOMAIN db' \/ db'[id] = db[id]) ]_vars

C6_Witness ==
    \E r \in Reqs :
        /\ req[r].pc = "failed"
        /\ req[r].err = PreconditionError
        /\ req[r].ent.status = COMPLETED
        /\ req[r].id \in DOMAIN db
        /\ db[req[r].id].status = COMPLETED

HasRequiredFields(data) == \A f \in RequiredFields : ~Falsy(data, f)

C8_NonPdf ==
    /\ \A r \in Reqs :
         (IsUpload(req[r]) /\ req[r].file.type # PDF /\ req[r].pc # "failed"
              /\ req[r].ent.id # 0) =>
             /\ req[r].calls.text = 0
             /\ req[r].calls.fetch = 0
             /\ ~IsSet(req[r].ent.extractedData)
             /\ IsSet(req[r].ent.storedPath) =>
                   req[r].pc \in { "flushPath", "uploaded", "done" }
             /\ req[r].pc = "done" =>
                   /\ req[r].ent.status = UPLOADED
                   /\ IsSet(req[r].ent.storedPath)
                   /\ req[r].id \in DOMAIN db => db[req[r].id] = req[r].ent
    /\ \A r \in Reqs :
         (UploadFailed(req[r]) /\ req[r].file.type # PDF) =>
             /\ ~IsSet(req[r].ent.storedPath)
             /\ req[r].calls.text = 0
             /\ req[r].calls.fetch = 0
    /\ \A id \in DOMAIN db :
         db[id].mimeType # PDF =>
             /\ db[id].status \in { UPLOADING, UPLOADED, ERROR }
             /\ ~IsSet(db[id].extractedData)

C8_Witness ==
    \E r \in Reqs :
        /\ req[r].pc = "done" /\ IsUpload(req[r])
        /\ req[r].file.type = "text/plain"
        /\ req[r].id \in DOMAIN db
        /\ db[req[r].id].status = UPLOADED
        /\ IsSet(db[req[r].id].storedPath)

\* C9: every upload that has returned, a PDF's included, returns a document
\* with status uploaded, id and uploadedAt defined and filename, mimeType and
\* fileSize equal to the uploaded file's.
C9_ReturnsUploaded ==
    \A r \in Reqs :
        (req[r].pc = "done" /\ IsUpload(req[r])) =>
            /\ req[r].ent.status = UPLOADED
            /\ req[r].ent.id \in DocIds
            /\ req[r].ent.uploadedAt > 0
            /\ req[r].ent.filename = req[r].file.name
            /\ req[r].ent.mimeType = req[r].file.type
            /\ req[r].ent.fileSize = req[r].file.size

\* C10: every persisted document, and every entity a request holds, that has
\* extractedData has mimeType application/pdf.
C10_ExtractedOnlyPdf ==
    /\ \A id \in DOMAIN db :
         IsSet(db[id].extractedData) => db[id].mimeType = PDF
    /\ \A r \in Reqs :
         IsSet(req[r].ent.extractedData) => req[r].ent.mimeType = PDF

C10_Witness ==
    \E i, j \in DOMAIN db :
        /\ IsSet(db[i].extractedData) /\ db[i].mimeType = PDF
        /\ db[j].mimeType # PDF /\ db[j].status = UPLOADED

\* The characters of a path segment.
Chars(seg) == { seg[i] : i \in DOMAIN seg }

\* A stored path strictly inside the upload root: a document directory and a
\* file name below it, neither of them empty, "." or "..", and no separator
\* inside a segment.
InsideRoot(p) ==
    /\ Len(p) >= 2
    /\ \A i \in DOMAIN p :
          /\ p[i] \notin { << >>, DotSeg, DotDotSeg }
          /\ "/" \notin Chars(p[i])
    /\ normalize(p) = p

\* What an upload of the file `name` of `size` bytes as document `id` may
\* have recorded as stored path.
Recorded(id, name, size, storedPath) ==
    IsSet(storedPath) =>
        LET p == storedPath[1]
        IN  /\ InsideRoot(p)
            /\ getFilePathOk(p)
            /\ getFilePath(p) = saveFileTarget(id, name)
            /\ getFilePath(p) \in DOMAIN files
            /\ files[getFilePath(p)] = size

\* C11: whatever the client-supplied file name and whatever the id, a stored
\* path that an upload has assigned to its document or flushed to the row lies
\* strictly inside the upload root (no ".." segment, not absolute), is
\* accepted by getFilePath, and resolves to the file saveFile wrote.
C11_StoredPathInsideRoot ==
    /\ \A r \in Reqs :
          IsUpload(req[r]) =>
              Recorded(req[r].ent.id, req[r].file.name, req[r].file.size,
                       req[r].ent.storedPath)
    /\ \A id \in DOMAIN db :
          Recorded(id, db[id].filename, db[id].fileSize, db[id].storedPath)

\* A name made of a parent reference, a separator and a character to replace
\* has been stored, under the second document id.
C11_Witness ==
    \E id \in DOMAIN db :
        /\ id > 1
        /\ db[id].filename = << ".", "/", " " >>
        /\ IsSet(db[id].storedPath)
        /\ db[id].storedPath[1] = << toString(id), << "_" >> >>

\* An upload the input validation refused: the handler never ran, so the
\* request holds no document and has called no service.
Rejected(q) ==
    /\ q.pc = "failed"
    /\ q.err = << "BAD_REQUEST" >>
    /\ q.ent = NoDocument
    /\ q.calls = NoCalls

\* C12: an upload of more than MAX_FILE_SIZE bytes is rejected by the
\* validation, with no document row and no file of that size ever existing;
\* an upload of exactly MAX_FILE_SIZE bytes of an allowed type passes the
\* validation.
C12_SizeLimit ==
    /\ \A r \in Reqs :
          /\ (IsUpload(req[r]) /\ req[r].file.size > MAX_FILE_SIZE)
                => Rejected(req[r])
          /\ (/\ IsUpload(req[r])
              /\ req[r].file.size = MAX_FILE_SIZE
              /\ req[r].file.type \in ALLOWED_MIME_TYPES)
                => (req[r].err # << "BAD_REQUEST" >> /\ req[r].ent # NoDocument)
    /\ \A id \in DOMAIN db : db[id].fileSize <= MAX_FILE_SIZE
    /\ \A path \in DOMAIN files : files[path] <= MAX_FILE_SIZE

\* An upload one byte over the limit has been refused while a document of
\* exactly the limit is stored.
C12_Witness ==
    /\ \E r \in Reqs : req[r].file.size = MAX_FILE_SIZE + 1 /\ Rejected(req[r])
    /\ \E id \in DOMAIN db :
          /\ db[id].fileSize = MAX_FILE_SIZE
          /\ IsSet(db[id].storedPath)
          /\ files[getFilePath(db[id].storedPath[1])] = MAX_FILE_SIZE

\* C13: an upload whose MIME type is outside ALLOWED_MIME_TYPES is rejected
\* before any side effect: the request holds no document and has called no
\* service, and no row carries such a type.
C13_TypeAllowList ==
    /\ \A r \in Reqs :
          (IsUpload(req[r]) /\ req[r].file.type \notin ALLOWED_MIME_TYPES)
              => Rejected(req[r])
    /\ \A id \in DOMAIN db : db[id].mimeType \in ALLOWED_MIME_TYPES

\* A zip archive has been refused as the very first request: nothing has
\* been created or written.
C13_Witness ==
    /\ \E r \in Reqs : req[r].file.type = "application/zip" /\ Rejected(req[r])
    /\ db = << >>
    /\ files = << >>
    /\ nextId = 1

\* The errors of the services an upload calls.
ServiceErrors ==
    { "saveFile failed", "Failed to extract text from PDF",
      "Failed to extract data from text" }

\* C14: for each of the seven allowed MIME types a minimal valid upload passes
\* the validation and, unless one of the services it calls throws, succeeds;
\* the document it constructs, stores and returns carries the MIME type of
\* the input.
C14_AllowedTypesSucceed ==
    /\ Cardinality(ALLOWED_MIME_TYPES) = 7
    /\ \A type \in ALLOWED_MIME_TYPES : uploadInputOk(File(NotesTxt, type, 1))
    /\ \A r \in Reqs :
          LET q == req[r]
          IN  (IsUpload(q) /\ q.file.name = NotesTxt
                           /\ q.file.type \in ALLOWED_MIME_TYPES) =>
                  /\ ~Rejected(q)
                  /\ q.ent.mimeType = q.file.type
                  /\ q.ent.id \in DOMAIN db
                  /\ db[q.ent.id].mimeType = q.file.type
                  /\ q.pc = "done" =>
                        /\ q.ent.status \in { UPLOADED, REVIEW }
                        /\ db[q.ent.id] = q.ent
                  /\ q.pc = "failed" =>
                        /\ UploadFailed(q)
                        /\ q.err[Len(q.err)] \in ServiceErrors

\* A Word document of the newer format has been uploaded successfully after
\* one of the older format.
C14_Witness ==
    \E r \in Reqs :
        /\ req[r].pc = "done"
        /\ req[r].ent.mimeType =
              "application/vnd.openxmlformats-officedocument.wordprocessingml.document"
        /\ req[r].ent.status = UPLOADED
        /\ \E id \in DOMAIN db :
              db[id].mimeType = "application/msword" /\ db[id].status = UPLOADED

\* C15: an upload of an empty file is rejected by the validation with no
\* document created, and every document row has a size above zero.  (The size
\* of a File is the length of its bytes: it is never negative.)
C15_PositiveSize ==
    /\ \A r \in Reqs :
          (IsUpload(req[r]) /\ req[r].file.size <= 0) => Rejected(req[r])
    /\ \A id \in DOMAIN db : db[id].fileSize > 0

\* An empty file has been refused while a document is in the table.
C15_Witness ==
    /\ \E r \in Reqs :
          /\ IsUpload(req[r])
          /\ req[r].file.size = 0
          /\ Rejected(req[r])
    /\ \E id \in DOMAIN db : db[id].fileSize > 0

\* C16: an upload whose file name is empty or longer than MaxFilenameLength
\* characters is rejected with no document created, and every document row
\* has a file name of 1 to MaxFilenameLength characters.
C16_FilenameLength ==
    /\ \A r \in Reqs :
          (IsUpload(req[r])
              /\ Len(req[r].file.name) \notin 1..MaxFilenameLength)
              => Rejected(req[r])
    /\ \A id \in DOMAIN db : Len(db[id].filename) \in 1..MaxFilenameLength

\* Ids that have been given to a document.
Created == 1..(nextId - 1)

\* C17: a deleted document stays deleted: in every step, an id that was given
\* out and is no longer in the table is not in the table afterwards; the step
\* that completes a delete leaves the table without the id; a list answers
\* with rows that omit every id that is not in the table; and a get or a
\* delete of an id that is not in the table fails with the not-found error
\* and leaves the table unchanged.
C17_DeletedStaysDeleted ==
    [][ /\ \A id \in Created : id \notin DOMAIN db => id \notin DOMAIN db'
        /\ \A r \in Reqs :
              /\ (req[r].pc = "remove" /\ req'[r].pc = "done")
                    => req[r].id \notin DOMAIN db'
              /\ (req[r].pc = "idle" /\ req'[r].res.route = "list")
                    => /\ req'[r].pc = "done"
                       /\ \A id \in Created :
                             id \notin DOMAIN db
                                 => id \notin DOMAIN req'[r].res.rows
              /\ (/\ req[r].pc = "idle"
                  /\ req'[r].pc # "idle"
                  /\ ~IsUpload(req'[r])
                  /\ req'[r].res.route # "list"
                  /\ req'[r].id \notin DOMAIN db)
                    => /\ req'[r].pc = "failed"
                       /\ req'[r].err = << "NotFoundError" >>
                       /\ db' = db
      ]_vars

\* The first document has been deleted; a get of it has failed and a list
\* has answered without it, while the second document is still there.
C17_Witness ==
    /\ 1 \in Created
    /\ 1 \notin DOMAIN db
    /\ MaxDocs \in DOMAIN db
    /\ \E r \in Reqs :
          /\ req[r].res.route = "get"
          /\ req[r].id = 1
          /\ req[r].err = << "NotFoundError" >>
    /\ \E r \in Reqs :
          /\ req[r].res.route = "list"
          /\ DOMAIN req[r].res.rows = { MaxDocs }

\* C18: the step that completes a delete changes only the database: the
\* upload directory, with the file of the deleted document and every other
\* file, is as before; the row of the id is gone and every other row is as
\* before; no id is given out and no other request is touched.
C18_DeleteFrame ==
    [][ \A r \in Reqs :
          (req[r].pc = "remove" /\ req'[r].pc = "done") =>
              /\ files' = files
              /\ nextId' = nextId
              /\ DOMAIN db' = DOMAIN db \ { req[r].id }
              /\ \A id \in DOMAIN db' : db'[id] = db[id]
              /\ \A q \in Reqs \ { r } : req'[q] = req[q]
      ]_vars

\* A delete has removed the row of a stored document: its file is still in
\* the upload directory, next to the row and the file of another document.
C18_Witness ==
    \E r \in Reqs :
        /\ req[r].pc = "done"
        /\ req[r].res.route = ""
        /\ ~IsUpload(req[r])
        /\ req[r].id \notin DOMAIN db
        /\ IsSet(req[r].ent.storedPath)
        /\ getFilePath(req[r].ent.storedPath[1]) \in DOMAIN files
        /\ \E id \in DOMAIN db :
              /\ IsSet(db[id].storedPath)
              /\ getFilePath(db[id].storedPath[1]) \in DOMAIN files

\* The file endpoint has answered with a JSON error.
Answered(q, status, error) ==
    /\ q.pc = "done"
    /\ q.res.route = "file"
    /\ q.res.status = status
    /\ q.res.error = error
    /\ q.res.body = 0

\* C19: the file endpoint answers 404 when the table has no document of the
\* id (never created, or deleted), when the document has no stored path, and
\* when its file is not in the upload directory; a document with a stored
\* path goes on to the file check, and when the file is there a request
\* without Range header is answered 200 with Content-Type the MIME type of the
\* document, Content-Length the size of the file and the whole file as body.
C19_FileEndpoint ==
    [][ \A r \in Reqs :
          /\ \A id \in RequestedIds \ { NaN } :
                FileBegin(r, id) =>
                    IF id \notin DOMAIN db \/ ~IsSet(db[id].storedPath)
                    THEN Answered(req'[r], 404, "Document not found")
                    ELSE req'[r].pc = "exists" /\ req'[r].ent = db[id]
          /\ FileServe(r, NoRange) =>
                LET document == req[r].ent
                    path == getFilePath(document.storedPath[1])
                IN  IF path \notin DOMAIN files
                    THEN Answered(req'[r], 404, "File not found on disk")
                    ELSE /\ req'[r].pc = "done"
                         /\ req'[r].res.status = 200
                         /\ req'[r].res.type = document.mimeType
                         /\ req'[r].res.length = files[path]
                         /\ req'[r].res.body = files[path]
                         /\ req'[r].res.range = None
      ]_vars

\* The text document whose upload completed has been served whole, and the
\* file of a PDF whose processing failed was not found on disk.
C19_Witness ==
    /\ \E r \in Reqs :
          /\ req[r].res.status = 200
          /\ req[r].res.type = "text/plain"
          /\ req[r].res.length = 12
          /\ req[r].ent.status = UPLOADED
    /\ \E r \in Reqs :
          /\ Answered(req[r], 404, "File not found on disk")
          /\ req[r].ent.mimeType = PDF
          /\ req[r].ent.status = ERROR

\* C20: a request with Range 'bytes=a-b' where 0 <= a <= b < fileSize, b being
\* fileSize - 1 when the end is omitted, for a document whose file is there,
\* is answered 206 with Content-Range 'bytes a-b/fileSize', Content-Length
\* b - a + 1 and a body of exactly that many bytes.
C20_RangeRequest ==
    [][ \A r \in Reqs, range \in RangeHeaders \ { NoRange } :
          FileServe(r, range) =>
              LET document == req[r].ent
                  path == getFilePath(document.storedPath[1])
              IN  path \in DOMAIN files =>
                      LET fileSize == files[path]
                          a == range.start
                          b == IF IsSet(range.end) THEN range.end[1]
                               ELSE fileSize - 1
                      IN  (0 <= a /\ a <= b /\ b < fileSize) =>
                              /\ req'[r].pc = "done"
                              /\ req'[r].res.status = 206
                              /\ req'[r].res.type = document.mimeType
                              /\ req'[r].res.range = Some(<< a, b, fileSize >>)
                              /\ req'[r].res.length = b - a + 1
                              /\ req'[r].res.body = b - a + 1
      ]_vars

\* The last byte of a file of the maximum size has been served to a request
\* that left the end of the range out.
C20_Witness ==
    \E r \in Reqs :
        /\ req[r].res.status = 206
        /\ req[r].res.range =
              Some(<< MAX_FILE_SIZE - 1, MAX_FILE_SIZE - 1, MAX_FILE_SIZE >>)
        /\ req[r].res.length = 1
        /\ req[r].res.body = 1

\* The service whose failure ended the upload, by the error it threw.
FailedAt(q, error) == Len(q.err) > 0 /\ q.err[Len(q.err)] = error

\* C21: within one upload request saveFile, extractTextFromPDF and the
\* chat-completion call are each invoked at most once and in this order, and a
\* request in which one of them failed has made no attempt of a later one.
C21_NoRetry ==
    \A r \in Reqs :
        LET q == req[r]
        IN  /\ q.calls.save <= 1 /\ q.calls.text <= 1 /\ q.calls.fetch <= 1
            /\ q.calls.text <= q.calls.save
            /\ q.calls.fetch <= q.calls.text
            /\ FailedAt(q, "saveFile failed")
                  => q.calls = [save |-> 1, text |-> 0, fetch |-> 0]
            /\ FailedAt(q, "Failed to extract text from PDF")
                  => q.calls = [save |-> 1, text |-> 1, fetch |-> 0]
            /\ FailedAt(q, "Failed to extract data from text")
                  => q.calls.save = 1 /\ q.calls.text = 1
            /\ q.pc \in { "catch", "failed", "done" } /\ IsUpload(q)
                  => q.ent.id = 0 \/ q.calls.save = 1

\* One upload has failed in the text extraction and another in the
\* chat-completion call, each after a single attempt.
C21_Witness ==
    /\ \E r \in Reqs :
          /\ req[r].pc = "failed"
          /\ FailedAt(req[r], "Failed to extract text from PDF")
          /\ req[r].calls = [save |-> 1, text |-> 1, fetch |-> 0]
    /\ \E r \in Reqs :
          /\ req[r].pc = "failed"
          /\ FailedAt(req[r], "Failed to extract data from text")
          /\ req[r].calls = [save |-> 1, text |-> 1, fetch |-> 1]

\* The upload of request q has come to its end.
UploadEnded(q) == IsUpload(q) /\ q.pc \in { "done", "failed" } /\ q.ent.id # 0

\* C22: concurrent uploads are independent.  Two uploads in the slots have
\* different ids and, where saveFile can write at all, different paths, also
\* when their files have the same name; a step of one upload changes no row but that of its own
\* document, overwrites no file and changes no other request; and when an
\* upload ends, the row of its document (unless deleted meanwhile) is its own
\* entity, whose stored path, if any, is saveFile's result for its own id and
\* name.
C22_UploadsIndependent ==
    [][ /\ \A r1, r2 \in Reqs :
              (r1 # r2 /\ req[r1].ent.id # 0 /\ req[r2].ent.id # 0
                       /\ IsUpload(req[r1]) /\ IsUpload(req[r2])) =>
                  /\ req[r1].ent.id # req[r2].ent.id
                  /\ (/\ saveFileWritable(req[r1].ent.id, req[r1].file.name)
                      /\ saveFileWritable(req[r2].ent.id, req[r2].file.name)) =>
                        /\ saveFileTarget(req[r1].ent.id, req[r1].file.name)
                              # saveFileTarget(req[r2].ent.id, req[r2].file.name)
                        /\ saveFileResult(req[r1].ent.id, req[r1].file.name)
                              # saveFileResult(req[r2].ent.id, req[r2].file.name)
        /\ \A r \in Reqs :
              ((InFlightUpload(req[r]) \/ IsUpload(req'[r])) /\ req'[r] # req[r]) =>
                  /\ \A id \in DOMAIN db \ { req'[r].ent.id } :
                        id \in DOMAIN db' /\ db'[id] = db[id]
                  /\ \A path \in DOMAIN files :
                        path \in DOMAIN files' /\ files'[path] = files[path]
                  /\ \A q \in Reqs \ { r } : req'[q] = req[q]
                  /\ (UploadEnded(req'[r]) /\ ~UploadEnded(req[r])) =>
                        /\ req'[r].ent.id \in DOMAIN db'
                              => db'[req'[r].ent.id] = req'[r].ent
                        /\ IsSet(req'[r].ent.storedPath) =>
                              /\ req'[r].ent.storedPath =
                                    Some(saveFileResult(req'[r].ent.id,
                                                        req'[r].file.name))
                              /\ files'[getFilePath(req'[r].ent.storedPath[1])]
                                    = req'[r].file.size
      ]_vars

\* Two uploads of files with the same name have both ended successfully, each
\* with its own row and its own file.
C22_Witness ==
    \E r1, r2 \in Reqs :
        /\ r1 # r2
        /\ req[r1].pc = "done" /\ req[r2].pc = "done"
        /\ IsUpload(req[r1]) /\ IsUpload(req[r2])
        /\ req[r1].file.name = req[r2].file.name
        /\ req[r1].ent.storedPath # req[r2].ent.storedPath
        /\ db[req[r1].ent.id] = req[r1].ent
        /\ db[req[r2].ent.id] = req[r2].ent

\* The upload in slot r has come to its end and has left its document at
\* uploaded (a file that is no PDF), at review (a PDF) or at error.
Settled(r) ==
    /\ req[r].pc \in { "done", "failed" }
    /\ req[r].ent.id \in DOMAIN db
    /\ db[req[r].ent.id].status
          \in (IF IsPdfFile(req[r].file) THEN { REVIEW, ERROR }
               ELSE { UPLOADED, ERROR })

\* C23: every upload that has begun comes to its end, with its document at
\* uploaded, review or error, whether or not its response is ever read; and
\* a document at uploading or processing does not stay there.
C23_UploadsTerminate ==
    /\ \A r \in Reqs : InFlightUpload(req[r]) ~> Settled(r)
    /\ \A id \in DocIds :
          (id \in DOMAIN db /\ db[id].status \in { UPLOADING, PROCESSING })
              ~> (id \in DOMAIN db /\ db[id].status \in { UPLOADED, REVIEW, ERROR })

\* A PDF upload has ended at review and its response has not been read, while
\* the upload of a text file has failed and left its document at error.
C23_Witness ==
    /\ \E r \in Reqs :
          /\ req[r].pc = "done"
          /\ IsPdfFile(req[r].file)
          /\ db[req[r].ent.id].status = REVIEW
    /\ \E r \in Reqs :
          /\ req[r].pc = "failed"
          /\ IsUpload(req[r])
          /\ ~IsPdfFile(req[r].file)
          /\ db[req[r].ent.id].status = ERROR

\* The value the input supplies for a field of a todo: description is kept as
\* an optional value, title and completed as they are.
Supplied(input, f) == IF f = "description" THEN input[f] ELSE input[f][1]

\* C26: todos.update changes exactly the supplied fields of the addressed
\* todo.  The step that flushes the update leaves every other todo, and the
\* id and createdAt and every field not supplied of the addressed todo, as
\* they were; a supplied field has the supplied value afterwards (a field the
\* request found already at that value is not written).  An update of an id
\* that is not in the table, or one with an invalid input, fails and changes
\* nothing.
C26_TodoUpdateFrame ==
    [][ \A r \in Reqs :
          /\ (todoReq[r].pc = "flush" /\ todoReq'[r].pc = "done") =>
                LET input == todoReq[r].input
                    id == input.id
                IN  /\ nextTodoId' = nextTodoId
                    /\ DOMAIN todos' = DOMAIN todos
                    /\ \A j \in DOMAIN todos \ { id } : todos'[j] = todos[j]
                    /\ id \in DOMAIN todos =>
                          /\ todos'[id].id = id
                          /\ todos'[id].createdAt = todos[id].createdAt
                          /\ \A f \in { "title", "description", "completed" } :
                                IF IsSet(input[f])
                                THEN \/ todos'[id][f] = Supplied(input, f)
                                     \/ /\ todoReq[r].snap[f] = Supplied(input, f)
                                        /\ todos'[id][f] = todos[id][f]
                                ELSE todos'[id][f] = todos[id][f]
                          /\ todos[id] = todoReq[r].snap =>
                                \A f \in { "title", "description", "completed" } :
                                    IsSet(input[f])
                                        => todos'[id][f] = Supplied(input, f)
          /\ \A input \in TodoUpdates :
                (TodoUpdateBegin(r, input)
                    /\ (input.id \notin DOMAIN todos \/ ~todoUpdateInputOk(input)))
                    => /\ todoReq'[r].pc = "failed"
                       /\ todos' = todos
                       /\ nextTodoId' = nextTodoId
      ]_vars

\* The second todo has got a new title and is completed, with the description
\* it was created with, while the first todo is as it was created; and an
\* update of an id that never existed has failed.
C26_Witness ==
    /\ DOMAIN todos = 1..MaxTodos
    /\ todos[MaxTodos].title = "b"
    /\ todos[MaxTodos].completed
    /\ todos[MaxTodos].description = Some("c")
    /\ todos[1] = Todo(1, "a", Some("c"), 1)
    /\ \E r \in Reqs :
          /\ todoReq[r].pc = "failed"
          /\ todoReq[r].input.id = MaxTodos + 1
          /\ todoReq[r].err = << "NotFoundError" >>

\* C27: of the concurrent updateStatus requests on a document at most one
\* succeeds, the one that moves it from review to completed: every step in
\* which a request passes the status check and succeeds finds the row of its
\* document, if still there, at review.
C27_OneCompletionWins ==
    [][ \A r \in Reqs :
          (/\ req[r].pc = "complete"
           /\ req'[r].pc = "done"
           /\ req[r].id \in DOMAIN db)
              => db[req[r].id].status = REVIEW
      ]_vars

\* C28: while a PDF upload is running on the server, a browser that fetches
\* the list, with the document in it, keeps polling: whatever status the row
\* of the document is in at that moment, the refetch interval of the fetched
\* list is 2000 ms.
C28_PollsWhileUploadRuns ==
    \A r \in Reqs :
        (/\ InFlightUpload(req[r])
         /\ IsPdfFile(req[r].file)
         /\ req[r].ent.id \in DOMAIN db)
            => refetchInterval(db) = 2000

\* C30: every 206 answer of the file endpoint advertises a range inside the
\* file: Content-Range 'bytes start-end/fileSize' has
\* 0 <= start <= end <= fileSize - 1, and Content-Length is end - start + 1,
\* which is at most fileSize.
C30_RangeInsideFile ==
    \A r \in Reqs :
        req[r].res.status = 206 =>
            LET start == req[r].res.range[1][1]
                end == req[r].res.range[1][2]
                fileSize == req[r].res.range[1][3]
            IN  /\ 0 <= start
                /\ start <= end
                /\ end <= fileSize - 1
                /\ req[r].res.length = end - start + 1
                /\ req[r].res.length <= fileSize

\* C29: in every persisted state a document that carries extractedData has
\* status review or completed, also when flushes inside upload fail.
C29_ExtractedDataOnlyReviewed ==
    \A id \in DOMAIN db :
        IsSet(db[id].extractedData) => db[id].status \in { REVIEW, COMPLETED }

\* C24: the pre-check of the browser and the validation of the server decide
\* alike: a file the user picks becomes the selected file, which the Upload
\* button sends, exactly when the server's validation accepts it.
C24_PreCheckAgrees ==
    [][ \A file \in PickedFiles :
          validateAndSelectFile(file)
              => ((client'.selectedFile = file) <=> uploadInputOk(file))
      ]_vars

\* C25: when the upload fails, the component displays the message of the
\* server's error as it is and no file remains selected, so that nothing is
\* sent again before the user selects a file.
C25_FailureResetsSelection ==
    [][ \A r \in Reqs :
          (handleUploadSettled(r) /\ req[r].pc = "failed")
              => /\ client'.error = req[r].err
                 /\ client'.uploadStatus = ERROR
                 /\ client'.selectedFile = NoFile
      ]_vars
====
